---- MODULE Spec2Model ----
(***************************************************************************)
(* Model of the socket.io chat gateway (server/src/index.ts).              *)
(*                                                                         *)
(* The server is one Node.js process: every handler runs to its next       *)
(* `await` without interruption, and handlers of any connection interleave *)
(* at the awaits.  One action of this model is one such uninterrupted      *)
(* stretch of a handler.                                                   *)
(*                                                                         *)
(* Redis: all commands go through the single `redisClient`, which sends    *)
(* them over one connection in call order; Redis executes them in that     *)
(* order.  A Redis command therefore takes effect in the step that issues  *)
(* it, and the step after it is the arrival of its reply.  Redis removes a *)
(* hash key when its last field is deleted.                                *)
(*                                                                         *)
(* MongoDB: operations of different handlers are served concurrently, so a *)
(* Mongo operation takes effect in a step of its own, some time after the  *)
(* step that issued it.                                                    *)
(*                                                                         *)
(* Store failures are modelled where the handler catches them (the         *)
(* try/catch of each event handler and of the auth middleware).  The       *)
(* connection handler and the disconnect handler have no try/catch: a      *)
(* store failure there is an unhandled rejection and is outside the model. *)
(***************************************************************************)
EXTENDS Integers, Sequences, FiniteSets, Bags, TLC

\* ---------------------------------------------------------------- bounds
MaxConns  == 2      \* socket ids handed out over the life of the process
NumUsers  == 2      \* User documents in the identity collection
MaxGroups == 1      \* Group documents createGroup may create
MaxMsgs   == 1      \* Chat documents sendMessage may construct
MaxTasks  == 2      \* async functions suspended at an await at once
MaxWalkMsgs == 4    \* length of the message log of a pagination walk
MaxListGroups == 3  \* Group documents in the collection a getGroups call reads
MaxSendMsgs == 2    \* Chat documents constructed where the order of broadcasts is recorded
MaxPurgeKeys == 2   \* group presence keys in the store a cleanup scans

\* ------------------------------------------------------ program constants
PageLimit == 2      \* .limit(50), scaled down to keep page boundaries in reach

Conns == 1..MaxConns
Users == 1..NumUsers

\* user.address of a User document; the handshake token is compared to it
Address(u) == 100 + u

NoToken  == 0       \* socket.handshake.auth.token absent (falsy)
BadToken == 100     \* a token that is the address of no User
Tokens   == {NoToken, BadToken} \cup {Address(u) : u \in Users}

NoUser == 0         \* socket.data.user never set

\* Well-formed group ids.  Group.create gives the i-th Group document the id
\* i; until then i is a well-formed ObjectId that matches no Group document
\* (the driver's ObjectIds are a timestamp, a per-process value and a
\* counter, so a client can name an id before the document exists).
GIds == 1..MaxGroups

\* a group id that is no ObjectId.  A handler given it ends in its catch
\* block as with a well-formed id and a store error (joinGroup after writing
\* a Redis key of its own); the model sends it with loadMessages only
Malformed == 0

Texts == {"hi"}

\* ids the driver may give to Chat documents
MsgIds == 1..(IF MaxSendMsgs > MaxMsgs THEN MaxSendMsgs ELSE MaxMsgs)

\* which history variables a specification records
Observers == {"none", "delivery", "order", "joins", "sends"}

VARIABLES
    status,           \* per socket: "idle", "rejected", "registering" (connection handler at its
                      \* await), "active", "orphan" (closed while registering), "closed"
    token,            \* socket.handshake.auth.token
    user,             \* socket.data.user (a User id, or NoUser)
    userConnections,  \* Redis hash user_connections: socket id -> address
    presence,         \* Redis keys group:{g}:users that exist, each a hash socket id -> address
    rooms,            \* socket.io adapter: the rooms each socket id is in
    groups,           \* Group collection; the index is the document id
    messages,         \* Chat collection, in insertion order
    nextId,           \* next ObjectId the driver generates for a Chat document
    now,              \* Date.now() at the latest document construction (0: none yet)
    tasks,            \* bag of handlers suspended at an await
    emitted,          \* what the last step sent to clients
    lastArrived,      \* history: last joinGroup/leaveGroup that arrived, per socket and group
                      \*          ("failed" once one of them ended in its catch block)
    completed,        \* history: last joinGroup/leaveGroup that ran to its end, per socket and group
    purged,           \* history: sockets whose disconnect handler called cleanup
    acked,            \* history: sockets that were sent connectionEstablished
    joinCount,        \* history: joinGroup calls that found the Group document and ran to
                      \*          their end, per identity and group (counted up to 2)
    raced,            \* history: <<identity, group>> with two joinGroup calls in flight at once
    outcome,          \* history: how the sendMessage of each Chat document id ended
    walk,             \* the client of a pagination walk
    observe           \* the history this behaviour records (fixed by Init)

vars == <<status, token, user, userConnections, presence, rooms, groups, messages,
          nextId, now, tasks, emitted, lastArrived, completed, purged, acked,
          joinCount, raced, outcome, walk, observe>>

conn    == <<status, token, user>>
durable == <<groups, messages, nextId, now>>
history == <<lastArrived, completed, purged, acked, joinCount, raced>>
fixed   == <<walk, observe>>

\* ------------------------------------------------------------- helpers
Min(a, b) == IF a < b THEN a ELSE b

Range(s) == {s[i] : i \in DOMAIN s}

EmptyHash == <<>>

\* number of entries of seq s equal to x
RECURSIVE Count(_, _)
Count(x, s) == IF s = <<>> THEN 0
               ELSE (IF Head(s) = x THEN 1 ELSE 0) + Count(x, Tail(s))

\* sequences listing every element of S once
Perms(S) == {p \in [1..Cardinality(S) -> S] : \A i, j \in DOMAIN p : i # j => p[i] # p[j]}

\* first n elements of s
Take(s, n) == SubSeq(s, 1, Min(n, Len(s)))

\* ---------------------------------------------------------------- Redis
\* HSET key field value
HSet(h, field, value) == (field :> value) @@ h

\* HDEL key field
HDel(h, field) == [f \in (DOMAIN h) \ {field} |-> h[f]]

\* HLEN key
HLen(h) == Cardinality(DOMAIN h)

\* KEYS group:*:users
GroupKeys(p) == DOMAIN p

\* the hash a command finds at group:{g}:users: a key that does not exist
\* reads as a hash with no field
Hash(p, g) == IF g \in DOMAIN p THEN p[g] ELSE EmptyHash

\* redisHelpers.addUserToGroup: HSET creates the key if it does not exist
addUserToGroup(p, g, c, addr) == (g :> HSet(Hash(p, g), c, addr)) @@ p

\* DEL key
Del(p, g) == [k \in (DOMAIN p) \ {g} |-> p[k]]

\* an HDEL that names no field of the hash
removeField_noField(p, g, c) == p

\* the HDEL of redisHelpers.removeUserFromGroup and of the loop of cleanup
\* (Redis removes a hash key when HDEL removes its last field)
removeField(p, g, c) ==
    IF g \notin DOMAIN p THEN p
    ELSE IF DOMAIN HDel(p[g], c) = {} THEN Del(p, g)
    ELSE [p EXCEPT ![g] = HDel(@, c)]

\* a DEL that is never sent
delKey_notSent(p, g) == p

\* the DEL of redisHelpers.removeUserFromGroup and of the loop of cleanup
delKey(p, g) == Del(p, g)

\* an addUserConnection whose HSET is never sent
addUserConnection_noWrite(uc, c, addr) == uc

\* redisHelpers.addUserConnection
addUserConnection(uc, c, addr) == HSet(uc, c, addr)

\* a last HDEL that is never sent
removeUserConnection_notSent(uc, c) == uc

\* redisHelpers.removeUserConnection / the last HDEL of cleanup
removeUserConnection(uc, c) == HDel(uc, c)

\* -------------------------------------------------------------- MongoDB
\* a lookup that resolves every non-empty token to a User document
findUser_anyToken(tok) == IF tok = NoToken THEN NoUser
                          ELSE IF \E u \in Users : Address(u) = tok
                               THEN CHOOSE u \in Users : Address(u) = tok
                               ELSE 1

\* User.findOne({ address: token })
findUser(tok) == IF \E u \in Users : Address(u) = tok
                 THEN CHOOSE u \in Users : Address(u) = tok
                 ELSE NoUser

\* Group.findById(g): the document exists
groupExists(gs, g) == g \in 1..Len(gs)

\* an includes() that compares ObjectIds by reference
isMember_byReference(gs, g, u) == FALSE

\* group.members.includes(user._id)
isMember(gs, g, u) == \E i \in DOMAIN gs[g].members : gs[g].members[i] = u

\* a save that writes the array as [user._id]
pushMember_overwrite(ms, u) == <<u>>

\* group.members.push(user._id); group.save()  ($push on the stored array)
pushMember(ms, u) == Append(ms, u)

\* documents of docs (a sequence) at the positions in S, in every order that
\* .sort({ createdAt: -1 }) may return them: documents with equal createdAt
\* come in any order
sortCreatedAtDesc(docs, S) ==
    {p \in Perms(S) : \A i, j \in DOMAIN p : i < j => docs[p[i]].createdAt >= docs[p[j]].createdAt}

\* Group.find({ isPrivate: false })
publicGroups(gs) == {i \in DOMAIN gs : ~gs[i].isPrivate}

\* a reply that is allGroups as the store sorted it
partitionGroups_unpartitioned(gs, all, u) == all

\* [...userGroups, ...otherGroups] of the getGroups handler
partitionGroups(gs, all, u) ==
    SelectSeq(all, LAMBDA i : isMember(gs, i, u)) \o SelectSeq(all, LAMBDA i : ~isMember(gs, i, u))

\* Chat.find({ groupId, isDeleted: false, _id: { $lt: before } }); a falsy
\* `before` adds no _id condition
matching(ms, g, before) ==
    {i \in DOMAIN ms : /\ ms[i].groupId = g
                       /\ ~ms[i].isDeleted
                       /\ before # 0 => ms[i].id < before}

\* msg => ({ _id, message, sender: { address }, createdAt, groupId })
formatMessage(m) ==
    [id |-> m.id, message |-> m.message, address |-> Address(m.sender),
     createdAt |-> m.createdAt, groupId |-> m.groupId]

\* the pages .sort({ createdAt: -1 }).limit(50) may return, formatted
loadPage(ms, g, before) ==
    {[k \in 1..Min(PageLimit, Len(p)) |-> formatMessage(ms[p[k]])] :
        p \in sortCreatedAtDesc(ms, matching(ms, g, before))}

\* ----------------------------------------------------------- bookkeeping
Task(kind, c, g, pc, n, text, at, keys) ==
    [kind |-> kind, c |-> c, g |-> g, pc |-> pc, n |-> n, text |-> text, at |-> at, keys |-> keys]

Spawn(t)  == tasks (+) SetToBag({t})
Finish(t) == tasks (-) SetToBag({t})
Swap(t, u) == (tasks (-) SetToBag({t})) (+) SetToBag({u})

Running == BagToSet(tasks)
Handlers == {t \in Running : t.kind # "cleanup"}

\* suspended async functions: the event handlers and cleanups in `tasks` and
\* the connection handlers awaiting addUserConnection
NumSuspended ==
    BagCardinality(tasks) + Cardinality({c \in Conns : status[c] \in {"registering", "orphan"}})

None == [ev |-> "none", to |-> {}, text |-> "", body |-> <<>>, glist |-> <<>>]
Emit(ev, to, text, body, glist) ==
    [ev |-> ev, to |-> to, text |-> text, body |-> body, glist |-> glist]

\* an 'error' event emitted with io.emit: to every connected socket
ErrorTo_everyone(c, text) == Emit("error", {d \in Conns : status[d] \in {"registering", "active"}}, text, <<>>, <<>>)

\* socket.emit('error', text)
ErrorTo(c, text) == Emit("error", {c}, text, <<>>, <<>>)

\* a client paging through loadMessages: the group, the `before` of its next
\* call, the ids it was given so far, its last page, whether it has stopped
NoWalk == [started |-> FALSE, g |-> 0, cursor |-> 0, seen |-> <<>>, last |-> <<>>, done |-> FALSE]

\* sockets the server can still write to
Live == {c \in Conns : status[c] \in {"registering", "active"}}

\* ------------------------------------------------------------------ Init
Start ==
    /\ status = [c \in Conns |-> "idle"]
    /\ token = [c \in Conns |-> NoToken]
    /\ user = [c \in Conns |-> NoUser]
    /\ userConnections = EmptyHash
    /\ presence = EmptyHash
    /\ rooms = [c \in Conns |-> {}]
    /\ groups = <<>>
    /\ messages = <<>>
    /\ nextId = 1
    /\ now = 0
    /\ tasks = EmptyBag
    /\ emitted = None
    /\ lastArrived = [c \in Conns |-> [g \in GIds |-> "none"]]
    /\ completed = [c \in Conns |-> [g \in GIds |-> "none"]]
    /\ purged = {}
    /\ acked = {}
    /\ joinCount = [u \in Users |-> [g \in GIds |-> 0]]
    /\ raced = {}
    /\ outcome = [i \in MsgIds |-> "none"]
    /\ walk = NoWalk

Init == Start /\ observe = "none"

\* history of arrivals: the last joinGroup/leaveGroup of the connected socket
\* c for group g, "failed" for good once one of them ended in its catch block
Arrive(c, g, what) ==
    IF observe = "order" /\ status[c] = "active"
    THEN [lastArrived EXCEPT ![c][g] = IF @ = "failed" THEN @ ELSE what]
    ELSE lastArrived

\* history of completions: the last joinGroup/leaveGroup of the connected
\* socket c for group g that ran to its last statement
Complete(c, g, what) ==
    IF observe = "delivery" /\ status[c] = "active"
    THEN [completed EXCEPT ![c][g] = what]
    ELSE completed

\* history of joins: the handler's findById found the Group document
FoundGroup(g) == IF observe = "joins" /\ groupExists(groups, g) THEN 1 ELSE 0

\* history of sends: "message" once the handler that constructed document id
\* broadcast it, "error" once it ended in its catch block
Outcome(id, what) ==
    IF observe \in {"delivery", "sends"} THEN [outcome EXCEPT ![id] = what] ELSE outcome

\* socket.io hands out a fresh id per connection
FreshConn(c) == status[c] = "idle" /\ \A d \in Conns : d < c => status[d] # "idle"

\* User documents are interchangeable: a handshake presents the address of an
\* identity some socket is bound to, or of the lowest-numbered other one
KnownUsers == {user[c] : c \in Conns} \ {NoUser}
Presentable == {NoToken, BadToken} \cup {Address(u) : u \in {v \in Users : v <= Cardinality(KnownUsers) + 1}}

Nameable == GIds

CanStart(c) == status[c] = "active" /\ NumSuspended < MaxTasks

\* The handlers of getGroups and loadMessages make one store read and write
\* nothing; what they reply depends on the durable state only, and every
\* durable state is reached with nothing suspended (each pending write may
\* still fail).  They are modelled as one step, taken while nothing is
\* suspended.
CanCall(c) == status[c] = "active" /\ NumSuspended = 0

\* Chat documents a behaviour constructs at most
MsgLimit == IF observe = "sends" THEN MaxSendMsgs ELSE MaxMsgs

\* Date.now() of a document construction: the millisecond of the previous
\* construction or a later one (only equal or later matters)
Clock == IF now = 0 THEN {1} ELSE {now, now + 1}

\* ------------------------------------------------- io.use (auth middleware)
\* `!token`, or findOne resolved to null: next(new Error(...))
AuthReject(c, tok) ==
    /\ FreshConn(c)
    /\ tok = NoToken \/ findUser(tok) = NoUser
    /\ status' = [status EXCEPT ![c] = "rejected"]
    /\ token' = [token EXCEPT ![c] = tok]
    /\ emitted' = None
    /\ UNCHANGED <<user, userConnections, presence, rooms, durable, tasks, history, outcome, fixed>>

\* findOne threw: the catch block calls next(new Error(...))
AuthError(c, tok) ==
    /\ FreshConn(c)
    /\ tok \in Presentable
    /\ tok # NoToken
    /\ status' = [status EXCEPT ![c] = "rejected"]
    /\ token' = [token EXCEPT ![c] = tok]
    /\ emitted' = None
    /\ UNCHANGED <<user, userConnections, presence, rooms, durable, tasks, history, outcome, fixed>>

\* the middleware calls next(); io.on('connection') runs up to its await
Connect(c, tok) ==
    /\ FreshConn(c) /\ NumSuspended < MaxTasks
    /\ tok \in Presentable
    /\ tok # NoToken
    /\ findUser(tok) # NoUser
    /\ status' = [status EXCEPT ![c] = "registering"]
    /\ token' = [token EXCEPT ![c] = tok]
    /\ user' = [user EXCEPT ![c] = findUser(tok)]
    /\ userConnections' = addUserConnection(userConnections, c, Address(findUser(tok)))
    /\ emitted' = None
    /\ UNCHANGED <<presence, rooms, durable, tasks, history, outcome, fixed>>

\* ---------------------------------------------------- io.on('connection')
\* the HSET replied: emit connectionEstablished, register the listeners
Registered(c) ==
    /\ status[c] = "registering"
    /\ status' = [status EXCEPT ![c] = "active"]
    /\ emitted' = Emit("connectionEstablished", {c}, "", <<[connectionId |-> c]>>, <<>>)
    /\ acked' = acked \cup {c}
    /\ UNCHANGED <<token, user, userConnections, presence, rooms, durable, tasks,
                   lastArrived, completed, purged, joinCount, raced, outcome, fixed>>

\* the same continuation on a socket that closed in the meantime: the emit
\* is discarded and the listeners are registered after 'disconnect' fired
RegisteredLate(c) ==
    /\ status[c] = "orphan"
    /\ status' = [status EXCEPT ![c] = "closed"]
    /\ emitted' = None
    /\ UNCHANGED <<token, user, userConnections, presence, rooms, durable, tasks, history, outcome, fixed>>

\* the client goes away while the connection handler awaits its HSET: no
\* 'disconnect' listener exists yet
DisconnectEarly(c) ==
    /\ status[c] = "registering"
    /\ status' = [status EXCEPT ![c] = "orphan"]
    /\ rooms' = [rooms EXCEPT ![c] = {}]
    /\ emitted' = None
    /\ UNCHANGED <<token, user, userConnections, presence, durable, tasks, history, outcome, fixed>>

\* --------------------------------------------------- socket.on('joinGroup')
SameJoinInFlight(c, g) ==
    \E t \in Handlers : t.kind = "join" /\ t.g = g /\ user[t.c] = user[c]

JoinGroup(c, g) ==
    /\ CanStart(c)
    /\ g \in Nameable
    /\ presence' = addUserToGroup(presence, g, c, Address(user[c]))
    /\ tasks' = Spawn(Task("join", c, g, "find", 0, "", 0, {}))
    /\ lastArrived' = Arrive(c, g, "join")
    /\ raced' = IF observe = "joins" /\ SameJoinInFlight(c, g)
                THEN raced \cup {<<user[c], g>>} ELSE raced
    /\ emitted' = None
    /\ UNCHANGED <<conn, userConnections, rooms, durable, completed, purged, acked, joinCount, outcome, fixed>>

\* the HSET of addUserToGroup is rejected
JoinGroupHsetFail(c, g) ==
    /\ CanStart(c)
    /\ g \in Nameable
    /\ lastArrived' = Arrive(c, g, "failed")
    /\ emitted' = ErrorTo(c, "Failed to join group")
    /\ UNCHANGED <<conn, userConnections, presence, rooms, durable, tasks,
                   completed, purged, acked, joinCount, raced, outcome, fixed>>

\* Group.findById resolves
JoinFind(t) ==
    /\ t \in Running /\ t.kind = "join" /\ t.pc = "find"
    /\ t.g \in GIds
    /\ tasks' = Swap(t, [t EXCEPT !.pc =
                    IF groupExists(groups, t.g) /\ ~isMember(groups, t.g, user[t.c])
                    THEN "save" ELSE "sub",
                                  !.n = FoundGroup(t.g)])
    /\ emitted' = None
    /\ UNCHANGED <<conn, userConnections, presence, rooms, durable, history, outcome, fixed>>

\* Group.findById rejects (CastError on a malformed id, or a store error)
JoinFindFail(t) ==
    /\ t \in Running /\ t.kind = "join" /\ t.pc = "find"
    /\ tasks' = Finish(t)
    /\ lastArrived' = Arrive(t.c, t.g, "failed")
    /\ emitted' = ErrorTo(t.c, "Failed to join group")
    /\ UNCHANGED <<conn, userConnections, presence, rooms, durable,
                   completed, purged, acked, joinCount, raced, outcome, fixed>>

\* group.save() is applied by the store
JoinSave(t) ==
    /\ t \in Running /\ t.kind = "join" /\ t.pc = "save"
    /\ groups' = [groups EXCEPT ![t.g].members = pushMember(@, user[t.c])]
    /\ tasks' = Swap(t, [t EXCEPT !.pc = "sub"])
    /\ emitted' = None
    /\ UNCHANGED <<conn, userConnections, presence, rooms, messages, nextId, now, history, outcome, fixed>>

\* group.save() rejects
JoinSaveFail(t) ==
    /\ t \in Running /\ t.kind = "join" /\ t.pc = "save"
    /\ tasks' = Finish(t)
    /\ lastArrived' = Arrive(t.c, t.g, "failed")
    /\ emitted' = ErrorTo(t.c, "Failed to join group")
    /\ UNCHANGED <<conn, userConnections, presence, rooms, durable,
                   completed, purged, acked, joinCount, raced, outcome, fixed>>

\* await socket.join(groupId); the handler returns
JoinSubscribe(t) ==
    /\ t \in Running /\ t.kind = "join" /\ t.pc = "sub"
    /\ rooms' = [rooms EXCEPT ![t.c] = @ \cup {t.g}]
    /\ tasks' = Finish(t)
    /\ completed' = Complete(t.c, t.g, "join")
    /\ joinCount' = IF observe = "joins" /\ t.n = 1
                    THEN [joinCount EXCEPT ![user[t.c]][t.g] = Min(2, @ + 1)] ELSE joinCount
    /\ emitted' = None
    /\ UNCHANGED <<conn, userConnections, presence, durable, lastArrived, purged, acked, raced, outcome, fixed>>

\* -------------------------------------------------- socket.on('leaveGroup')
\* removeUserFromGroup issues its HDEL
LeaveGroup(c, g) ==
    /\ CanStart(c)
    /\ g \in Nameable
    /\ presence' = removeField(presence, g, c)
    /\ tasks' = Spawn(Task("leave", c, g, "hdel", 0, "", 0, {}))
    /\ lastArrived' = Arrive(c, g, "leave")
    /\ emitted' = None
    /\ UNCHANGED <<conn, userConnections, rooms, durable, completed, purged, acked,
                   joinCount, raced, outcome, fixed>>

\* the HDEL of removeUserFromGroup is rejected
LeaveGroupHdelFail(c, g) ==
    /\ CanStart(c)
    /\ g \in Nameable
    /\ lastArrived' = Arrive(c, g, "failed")
    /\ emitted' = ErrorTo(c, "Failed to leave group")
    /\ UNCHANGED <<conn, userConnections, presence, rooms, durable, tasks,
                   completed, purged, acked, joinCount, raced, outcome, fixed>>

\* await socket.leave(groupId); the handler returns
Unsubscribe(t) ==
    /\ rooms' = [rooms EXCEPT ![t.c] = @ \ {t.g}]
    /\ tasks' = Finish(t)
    /\ completed' = Complete(t.c, t.g, "leave")

\* the HDEL replied: HLEN is issued
LeaveHdelReply(t) ==
    /\ t \in Running /\ t.kind = "leave" /\ t.pc = "hdel"
    /\ tasks' = Swap(t, [t EXCEPT !.pc = "hlen", !.n = HLen(Hash(presence, t.g))])
    /\ emitted' = None
    /\ UNCHANGED <<conn, userConnections, presence, rooms, durable, history, outcome, fixed>>

\* the HLEN replied: DEL is issued if it said 0, else the helper returns
LeaveHlenReply(t) ==
    /\ t \in Running /\ t.kind = "leave" /\ t.pc = "hlen"
    /\ IF t.n = 0
       THEN /\ presence' = delKey(presence, t.g)
            /\ tasks' = Swap(t, [t EXCEPT !.pc = "del"])
            /\ UNCHANGED <<rooms, completed>>
       ELSE /\ Unsubscribe(t)
            /\ UNCHANGED presence
    /\ emitted' = None
    /\ UNCHANGED <<conn, userConnections, durable, lastArrived, purged, acked, joinCount, raced, outcome, fixed>>

\* the DEL replied: the helper returns
LeaveDelReply(t) ==
    /\ t \in Running /\ t.kind = "leave" /\ t.pc = "del"
    /\ Unsubscribe(t)
    /\ emitted' = None
    /\ UNCHANGED <<conn, userConnections, presence, durable, lastArrived, purged, acked,
                   joinCount, raced, outcome, fixed>>

\* --------------------------------------------------- socket.on('getGroups')
GetGroups(c) ==
    /\ CanCall(c)
    /\ \E all \in sortCreatedAtDesc(groups, publicGroups(groups)) :
          emitted' = Emit("groups", {c}, "", <<>>, partitionGroups(groups, all, user[c]))
    /\ UNCHANGED <<conn, userConnections, presence, rooms, durable, tasks, history, outcome, fixed>>

\* Group.find rejects: callback([])
GetGroupsFail(c) ==
    /\ CanCall(c)
    /\ emitted' = Emit("groups", {c}, "failed", <<>>, <<>>)
    /\ UNCHANGED <<conn, userConnections, presence, rooms, durable, tasks, history, outcome, fixed>>

\* ------------------------------------------------- socket.on('createGroup')
\* a Group.create whose members array is left empty
newGroup_noMembers(u, at) == [owner |-> u, members |-> <<>>, isPrivate |-> FALSE, createdAt |-> at]

\* the document of Group.create({ ..., owner, members: [owner], isPrivate: false })
newGroup(u, at) == [owner |-> u, members |-> <<u>>, isPrivate |-> FALSE, createdAt |-> at]

\* Group.create and both populate calls resolve: callback(group)
CreateGroup(c) ==
    /\ CanStart(c)
    /\ Len(groups) < MaxGroups
    /\ \E at \in Clock :
          /\ groups' = Append(groups, newGroup(user[c], at))
          /\ now' = at
    /\ emitted' = Emit("group", {c}, "", <<>>, <<Len(groups) + 1>>)
    /\ UNCHANGED <<conn, userConnections, presence, rooms, messages, nextId, tasks, history, outcome, fixed>>

\* Group.create rejects: callback(null)
CreateGroupFail(c) ==
    /\ CanStart(c)
    /\ emitted' = Emit("group", {c}, "failed", <<>>, <<>>)
    /\ UNCHANGED <<conn, userConnections, presence, rooms, durable, tasks, history, outcome, fixed>>

\* Group.create resolves and a populate call rejects: callback(null)
CreateGroupPopulateFail(c) ==
    /\ CanStart(c)
    /\ Len(groups) < MaxGroups
    /\ \E at \in Clock :
          /\ groups' = Append(groups, newGroup(user[c], at))
          /\ now' = at
    /\ emitted' = Emit("group", {c}, "failed", <<>>, <<>>)
    /\ UNCHANGED <<conn, userConnections, presence, rooms, messages, nextId, tasks, history, outcome, fixed>>

\* ------------------------------------------------- socket.on('sendMessage')
\* io.emit: every connected socket
Recipients_everyone(g) == Live

\* connected sockets in room g (io.to(g))
Recipients(g) == {c \in Live : g \in rooms[c]}

\* Chat.create constructs the document (_id and createdAt are set here) and
\* sends the insert
SendMessage(c, g, text) ==
    /\ CanStart(c)
    /\ g \in GIds
    /\ nextId <= MsgLimit
    /\ \E at \in Clock :
          /\ tasks' = Spawn(Task("send", c, g, "create", nextId, text, at, {}))
          /\ now' = at
    /\ nextId' = nextId + 1
    /\ emitted' = None
    /\ UNCHANGED <<conn, userConnections, presence, rooms, groups, messages, history, outcome, fixed>>

\* a handler that goes on to the broadcast without the insert being applied
SendCreate_noInsert(t) ==
    /\ t \in Running /\ t.kind = "send" /\ t.pc = "create"
    /\ t.g \in GIds
    /\ tasks' = Swap(t, [t EXCEPT !.pc = "emit"])
    /\ emitted' = None
    /\ UNCHANGED <<conn, userConnections, presence, rooms, durable, history, outcome, fixed>>

\* the insert is applied
SendCreate(t) ==
    /\ t \in Running /\ t.kind = "send" /\ t.pc = "create"
    /\ t.g \in GIds
    /\ messages' = Append(messages, [id |-> t.n, message |-> t.text, sender |-> user[t.c],
                                     groupId |-> t.g, createdAt |-> t.at, isDeleted |-> FALSE])
    /\ tasks' = Swap(t, [t EXCEPT !.pc = "emit"])
    /\ emitted' = None
    /\ UNCHANGED <<conn, userConnections, presence, rooms, groups, nextId, now, history, outcome, fixed>>

\* Chat.create rejects (a malformed groupId fails validation, or a store error)
SendCreateFail(t) ==
    /\ t \in Running /\ t.kind = "send" /\ t.pc = "create"
    /\ tasks' = Finish(t)
    /\ outcome' = Outcome(t.n, "error")
    /\ emitted' = ErrorTo(t.c, "Failed to send message")
    /\ UNCHANGED <<conn, userConnections, presence, rooms, durable, history, fixed>>

\* chat.populate resolved: io.to(data.groupId).emit('message', messageData)
SendEmit(t) ==
    /\ t \in Running /\ t.kind = "send" /\ t.pc = "emit"
    /\ tasks' = Finish(t)
    /\ outcome' = Outcome(t.n, "message")
    /\ emitted' = Emit("message", Recipients(t.g), "",
                       <<[id |-> t.n, message |-> t.text, address |-> Address(user[t.c]),
                          createdAt |-> t.at, groupId |-> t.g]>>, <<>>)
    /\ UNCHANGED <<conn, userConnections, presence, rooms, durable, history, fixed>>

\* chat.populate rejects
SendPopulateFail(t) ==
    /\ t \in Running /\ t.kind = "send" /\ t.pc = "emit"
    /\ tasks' = Finish(t)
    /\ outcome' = Outcome(t.n, "error")
    /\ emitted' = ErrorTo(t.c, "Failed to send message")
    /\ UNCHANGED <<conn, userConnections, presence, rooms, durable, history, fixed>>

\* ------------------------------------------------ socket.on('loadMessages')
\* the ids a client can pass as `before`: none, or the id of a message
Cursors == 0..MaxMsgs

LoadMessages(c, g, before) ==
    /\ CanCall(c)
    /\ g \in GIds
    /\ \E page \in loadPage(messages, g, before) :
          emitted' = Emit("messages", {c}, "", page, <<>>)
    /\ UNCHANGED <<conn, userConnections, presence, rooms, durable, tasks, history, outcome, fixed>>

\* Chat.find rejects (a malformed groupId, or a store error): callback([])
LoadMessagesFail(c, g) ==
    /\ CanCall(c)
    /\ emitted' = Emit("messages", {c}, "failed", <<>>, <<>>)
    /\ UNCHANGED <<conn, userConnections, presence, rooms, durable, tasks, history, outcome, fixed>>

\* -------------------------------------------------- socket.on('disconnect')
\* socket.io empties the socket's rooms, then the listener calls cleanup,
\* which issues KEYS group:*:users
Disconnect(c) ==
    /\ CanStart(c)
    /\ status' = [status EXCEPT ![c] = "closed"]
    /\ rooms' = [rooms EXCEPT ![c] = {}]
    /\ tasks' = Spawn(Task("cleanup", c, 0, "keys", 0, "", 0, GroupKeys(presence)))
    /\ purged' = purged \cup {c}
    /\ lastArrived' = [lastArrived EXCEPT ![c] = [g \in GIds |-> "none"]]
    /\ completed' = [completed EXCEPT ![c] = [g \in GIds |-> "none"]]
    /\ emitted' = None
    /\ UNCHANGED <<token, user, userConnections, presence, durable, acked, joinCount, raced, outcome, fixed>>

\* next iteration of `for (const key of groupKeys)`: HDEL key socketId; after
\* the last key, HDEL user_connections socketId
CleanupAdvance(t) ==
    IF t.keys # {}
    THEN /\ \E g \in t.keys :
               /\ presence' = removeField(presence, g, t.c)
               /\ tasks' = Swap(t, [t EXCEPT !.pc = "hdel", !.g = g, !.keys = @ \ {g}])
         /\ UNCHANGED userConnections
    ELSE /\ userConnections' = removeUserConnection(userConnections, t.c)
         /\ tasks' = Swap(t, [t EXCEPT !.pc = "last"])
         /\ UNCHANGED presence

\* KEYS replied
CleanupKeysReply(t) ==
    /\ t \in Running /\ t.kind = "cleanup" /\ t.pc = "keys"
    /\ CleanupAdvance(t)
    /\ emitted' = None
    /\ UNCHANGED <<conn, rooms, durable, history, outcome, fixed>>

\* the HDEL of the loop replied: HLEN is issued
CleanupHdelReply(t) ==
    /\ t \in Running /\ t.kind = "cleanup" /\ t.pc = "hdel"
    /\ tasks' = Swap(t, [t EXCEPT !.pc = "hlen", !.n = HLen(Hash(presence, t.g))])
    /\ emitted' = None
    /\ UNCHANGED <<conn, userConnections, presence, rooms, durable, history, outcome, fixed>>

\* the HLEN replied: DEL is issued if it said 0, else the loop goes on
CleanupHlenReply(t) ==
    /\ t \in Running /\ t.kind = "cleanup" /\ t.pc = "hlen"
    /\ IF t.n = 0
       THEN /\ presence' = delKey(presence, t.g)
            /\ tasks' = Swap(t, [t EXCEPT !.pc = "del"])
            /\ UNCHANGED userConnections
       ELSE CleanupAdvance(t)
    /\ emitted' = None
    /\ UNCHANGED <<conn, rooms, durable, history, outcome, fixed>>

\* the DEL replied: the loop goes on
CleanupDelReply(t) ==
    /\ t \in Running /\ t.kind = "cleanup" /\ t.pc = "del"
    /\ CleanupAdvance(t)
    /\ emitted' = None
    /\ UNCHANGED <<conn, rooms, durable, history, outcome, fixed>>

\* the last HDEL replied: cleanup returns
CleanupDone(t) ==
    /\ t \in Running /\ t.kind = "cleanup" /\ t.pc = "last"
    /\ tasks' = Finish(t)
    /\ emitted' = None
    /\ UNCHANGED <<conn, userConnections, presence, rooms, durable, history, outcome, fixed>>

\* ------------------------------------------------------------------ Next
Lifecycle ==
    \/ \E c \in Conns, tok \in Tokens : AuthReject(c, tok) \/ AuthError(c, tok) \/ Connect(c, tok)
    \/ \E c \in Conns : Registered(c) \/ RegisteredLate(c) \/ DisconnectEarly(c) \/ Disconnect(c)
    \/ \E t \in Running :
          \/ CleanupKeysReply(t) \/ CleanupHdelReply(t) \/ CleanupHlenReply(t)
          \/ CleanupDelReply(t) \/ CleanupDone(t)

JoinLeave ==
    \/ \E c \in Conns, g \in GIds :
          JoinGroup(c, g) \/ JoinGroupHsetFail(c, g) \/ LeaveGroup(c, g) \/ LeaveGroupHdelFail(c, g)
    \/ \E t \in Running :
          \/ JoinFind(t) \/ JoinFindFail(t) \/ JoinSave(t) \/ JoinSaveFail(t) \/ JoinSubscribe(t)
          \/ LeaveHdelReply(t) \/ LeaveHlenReply(t) \/ LeaveDelReply(t)

Creation ==
    \E c \in Conns : CreateGroup(c) \/ CreateGroupFail(c) \/ CreateGroupPopulateFail(c)

Messaging ==
    \/ \E c \in Conns, g \in GIds, text \in Texts : SendMessage(c, g, text)
    \/ \E t \in Running :
          SendCreate(t) \/ SendCreateFail(t) \/ SendEmit(t) \/ SendPopulateFail(t)

Queries ==
    \/ \E c \in Conns : GetGroups(c) \/ GetGroupsFail(c)
    \/ \E c \in Conns, g \in GIds \cup {Malformed} :
          \/ \E before \in Cursors : LoadMessages(c, g, before)
          \/ LoadMessagesFail(c, g)

\* every operation of the server
Next == Lifecycle \/ JoinLeave \/ Creation \/ Messaging \/ Queries

Spec == Init /\ [][Next]_vars

\* the operations that touch presence, rooms and membership
NextMembership == Lifecycle \/ JoinLeave \/ Creation

\* the operations that touch rooms, membership and messages
NextDelivery == Lifecycle \/ JoinLeave \/ Creation \/ Messaging

\* recording the completions of joinGroup and leaveGroup
InitDelivery == Start /\ observe = "delivery"
SpecDelivery == InitDelivery /\ [][NextDelivery]_vars

\* recording the arrivals of joinGroup and leaveGroup
InitOrder == Start /\ observe = "order"
SpecOrder == InitOrder /\ [][NextMembership]_vars

\* recording the joinGroup calls of each identity
InitJoins == Start /\ observe = "joins"
SpecJoins == InitJoins /\ [][NextMembership]_vars

\* ------------------------------------------------------ pagination walk
\* Chat collections sendMessage can leave behind: documents 1..n of one
\* group, constructed in id order, each in the millisecond of the previous
\* one or a later one
WalkLogs ==
    UNION {{[i \in 1..n |-> [id |-> i, message |-> "hi", sender |-> 1, groupId |-> 1,
                              createdAt |-> at[i], isDeleted |-> FALSE]] :
               at \in {a \in [1..n -> 1..n] :
                          /\ n > 0 => a[1] = 1
                          /\ \A i \in 2..n : a[i] \in {a[i - 1], a[i - 1] + 1}}} :
           n \in 0..MaxWalkMsgs}

InitWalk ==
    /\ Start!1 /\ Start!2 /\ Start!3 /\ Start!4 /\ Start!5 /\ Start!6 /\ Start!7
    /\ messages \in WalkLogs
    /\ nextId = Len(messages) + 1
    /\ now = IF messages = <<>> THEN 0 ELSE messages[Len(messages)].createdAt
    /\ tasks = EmptyBag
    /\ emitted = None
    /\ lastArrived = [c \in Conns |-> [g \in GIds |-> "none"]]
    /\ completed = [c \in Conns |-> [g \in GIds |-> "none"]]
    /\ purged = {}
    /\ acked = {}
    /\ joinCount = [u \in Users |-> [g \in GIds |-> 0]]
    /\ raced = {}
    /\ outcome = [i \in MsgIds |-> "none"]
    /\ walk = NoWalk
    /\ observe = "none"

\* the id of the oldest message of a page: of its last entry, the page being
\* newest first; or the smallest id, ids growing with construction
oldestIds(page) ==
    {page[Len(page)].id} \cup {m.id : m \in {x \in Range(page) : \A y \in Range(page) : x.id <= y.id}}

Ids(page) == [k \in DOMAIN page |-> page[k].id]

\* the reply of a loadMessages call reaches the client: it stops on an empty
\* page, else keeps the oldest id as its next `before`
Turn(page) ==
    /\ \E next \in (IF page = <<>> THEN {0} ELSE oldestIds(page)) :
          walk' = [started |-> TRUE, g |-> 1, cursor |-> next,
                   seen |-> walk.seen \o Ids(page), last |-> page, done |-> page = <<>>]
    /\ UNCHANGED <<conn, userConnections, presence, rooms, durable, tasks, emitted,
                   history, outcome, observe>>

\* loadMessages({ groupId }) on the first call
WalkFirst ==
    /\ ~walk.started
    /\ \E page \in loadPage(messages, 1, 0) : Turn(page)

\* loadMessages({ groupId, before }) on the following calls
WalkNext ==
    /\ walk.started /\ ~walk.done
    /\ \E page \in loadPage(messages, walk.g, walk.cursor) : Turn(page)

NextWalk == WalkFirst \/ WalkNext

SpecWalk == InitWalk /\ [][NextWalk]_vars

\* ------------------------------------------------------- group listing
\* an array holding the elements of S, smallest first
RECURSIVE Ascending(_)
Ascending(S) == IF S = {} THEN <<>>
                ELSE LET m == CHOOSE x \in S : \A y \in S : x <= y
                     IN  <<m>> \o Ascending(S \ {m})

\* Group collections a getGroups call can find: n documents, constructed in
\* id order, each in the millisecond of the previous one or a later one; the
\* owner is the first member, the other members joined later; isPrivate is
\* false on every document createGroup writes and may be true on others
ListedGroups ==
    UNION {{[i \in 1..n |-> [owner |-> o[i], members |-> <<o[i]>> \o Ascending(js[i] \ {o[i]}),
                              isPrivate |-> pr[i], createdAt |-> at[i]]] :
               o \in [1..n -> Users], js \in [1..n -> SUBSET Users], pr \in [1..n -> BOOLEAN],
               at \in {a \in [1..n -> 1..n] :
                          /\ n > 0 => a[1] = 1
                          /\ \A i \in 2..n : a[i] \in {a[i - 1], a[i - 1] + 1}}} :
           n \in 0..MaxListGroups}

\* socket 1 of some identity is connected and the Group collection is any
\* of ListedGroups
InitList ==
    /\ \E v \in Users :
          /\ status = [c \in Conns |-> IF c = 1 THEN "active" ELSE "idle"]
          /\ token = [c \in Conns |-> IF c = 1 THEN Address(v) ELSE NoToken]
          /\ user = [c \in Conns |-> IF c = 1 THEN v ELSE NoUser]
          /\ userConnections = addUserConnection(EmptyHash, 1, Address(v))
    /\ Start!5 /\ Start!6
    /\ groups \in ListedGroups
    /\ messages = <<>>
    /\ nextId = 1
    /\ now = IF groups = <<>> THEN 0 ELSE groups[Len(groups)].createdAt
    /\ tasks = EmptyBag
    /\ emitted = None
    /\ lastArrived = [c \in Conns |-> [g \in GIds |-> "none"]]
    /\ completed = [c \in Conns |-> [g \in GIds |-> "none"]]
    /\ purged = {}
    /\ acked = {1}
    /\ joinCount = [u \in Users |-> [g \in GIds |-> 0]]
    /\ raced = {}
    /\ outcome = [i \in MsgIds |-> "none"]
    /\ walk = NoWalk
    /\ observe = "none"

NextList == \E c \in Conns : GetGroups(c) \/ GetGroupsFail(c)

SpecList == InitList /\ [][NextList]_vars

\* ------------------------------------------------------ concurrent sends
\* sockets 1 and 2 of two identities are connected; the first has created
\* group 1 and the second has joined it, and both are in its room and in its
\* presence hash
InitSends ==
    /\ status = [c \in Conns |-> IF c \in {1, 2} THEN "active" ELSE "idle"]
    /\ token = [c \in Conns |-> IF c \in {1, 2} THEN Address(c) ELSE NoToken]
    /\ user = [c \in Conns |-> IF c \in {1, 2} THEN c ELSE NoUser]
    /\ userConnections = addUserConnection(addUserConnection(EmptyHash, 1, Address(1)), 2, Address(2))
    /\ presence = addUserToGroup(addUserToGroup(EmptyHash, 1, 1, Address(1)), 1, 2, Address(2))
    /\ rooms = [c \in Conns |-> IF c \in {1, 2} THEN {1} ELSE {}]
    /\ groups = <<[newGroup(1, 1) EXCEPT !.members = pushMember(@, 2)]>>
    /\ messages = <<>>
    /\ nextId = 1
    /\ now = 1
    /\ tasks = EmptyBag
    /\ emitted = None
    /\ lastArrived = [c \in Conns |-> [g \in GIds |-> "none"]]
    /\ completed = [c \in Conns |-> [g \in GIds |-> "none"]]
    /\ purged = {}
    /\ acked = {1, 2}
    /\ joinCount = [u \in Users |-> [g \in GIds |-> 0]]
    /\ raced = {}
    /\ outcome = [i \in MsgIds |-> "none"]
    /\ walk = NoWalk
    /\ observe = "sends"

SpecSends == InitSends /\ [][Messaging]_vars

\* ------------------------------------------------------- repeated cleanup
\* socket c is in no group presence hash and not in user_connections
Absent(c) ==
    /\ c \notin DOMAIN userConnections
    /\ \A g \in GroupKeys(presence) : c \notin DOMAIN presence[g]

\* the identity each socket id of a prepared store is bound to
Bound(c) == ((c - 1) % NumUsers) + 1

\* hashes socket id -> address of its identity, over the socket ids in S
Entries(S) == [c \in S |-> Address(Bound(c))]

\* Redis stores the handlers can leave behind: every socket has connected and
\* is connected or closed; a connected one is in user_connections, a closed
\* one may still be; each group presence key that exists has at least one
\* field
InitPurge ==
    /\ status \in [Conns -> {"active", "closed"}]
    /\ token = [c \in Conns |-> Address(Bound(c))]
    /\ user = [c \in Conns |-> Bound(c)]
    /\ \E S \in SUBSET Conns :
          /\ \A c \in Conns : status[c] = "active" => c \in S
          /\ userConnections = Entries(S)
    /\ \E K \in SUBSET (1..MaxPurgeKeys) :
          presence \in [K -> {Entries(S) : S \in (SUBSET Conns) \ {{}}}]
    /\ rooms = [c \in Conns |-> {}]
    /\ groups = <<>>
    /\ messages = <<>>
    /\ nextId = 1
    /\ now = 0
    /\ tasks = EmptyBag
    /\ emitted = None
    /\ lastArrived = [c \in Conns |-> [g \in GIds |-> "none"]]
    /\ completed = [c \in Conns |-> [g \in GIds |-> "none"]]
    /\ purged = {}
    /\ acked = {}
    /\ joinCount = [u \in Users |-> [g \in GIds |-> 0]]
    /\ raced = {}
    /\ outcome = [i \in MsgIds |-> "none"]
    /\ walk = NoWalk
    /\ observe = "none"

\* redisHelpers.cleanup(socketId) is called for a closed socket while no
\* other command is in flight, and issues KEYS group:*:users.  The handler
\* records whether the socket was absent from the store at the call (`at`)
\* and whether cleanup was called for it before (`text`).
Purge(c) ==
    /\ status[c] = "closed"
    /\ tasks = EmptyBag
    /\ tasks' = Spawn(Task("cleanup", c, 0, "keys", 0, IF c \in purged THEN "again" ELSE "",
                            IF Absent(c) THEN 1 ELSE 0, GroupKeys(presence)))
    /\ purged' = purged \cup {c}
    /\ emitted' = None
    /\ UNCHANGED <<conn, userConnections, presence, rooms, durable, lastArrived, completed,
                   acked, joinCount, raced, outcome, fixed>>

NextPurge ==
    \/ \E c \in Conns : Purge(c)
    \/ \E t \in Running :
          \/ CleanupKeysReply(t) \/ CleanupHdelReply(t) \/ CleanupHlenReply(t)
          \/ CleanupDelReply(t) \/ CleanupDone(t)

SpecPurge == InitPurge /\ [][NextPurge]_vars

\* ====================================================================
\* Claims
\* ====================================================================
\* nothing of socket c is suspended: no event handler, no cleanup, and the
\* connection handler has returned
Quiet(c) == status[c] \notin {"registering", "orphan"} /\ \A t \in Running : t.c # c

InPresence(c, g) == c \in DOMAIN Hash(presence, g)

\* C1: once a socket has disconnected and nothing of it is suspended any
\* more, no group presence hash and not user_connections has it as a field.
C1_PresenceCleanupTotality ==
    \A c \in Conns :
        (status[c] = "closed" /\ Quiet(c)) =>
            /\ c \notin DOMAIN userConnections
            /\ \A g \in GIds : ~InPresence(c, g)

\* C1 for the sockets whose disconnect handler ran (see C7 for the others)
C1_AfterCleanup ==
    \A c \in Conns :
        (c \in purged /\ Quiet(c)) =>
            /\ c \notin DOMAIN userConnections
            /\ \A g \in GIds : ~InPresence(c, g)

\* C7: every socket that passed authentication and has disconnected, the
\* connection handler having returned, had cleanup called for it.
C7_PurgeOnDisconnect ==
    \A c \in Conns : status[c] = "closed" => c \in purged

\* C6: a socket whose token is absent or the address of no User has no
\* session: it is in no Redis hash, in no room, was sent no acknowledgment and
\* has no handler; every handler and every reply belongs to a socket bound to
\* the User whose address is its token.
NoSession(c) ==
    /\ user[c] = NoUser
    /\ c \notin DOMAIN userConnections
    /\ \A g \in GIds : ~InPresence(c, g)
    /\ rooms[c] = {}
    /\ c \notin acked
    /\ c \notin purged
    /\ c \notin emitted.to
    /\ \A t \in Running : t.c # c

Authenticated(c) == user[c] \in Users /\ token[c] = Address(user[c])

C6_AuthenticationGate ==
    /\ \A c \in Conns :
          token[c] \notin {Address(u) : u \in Users} =>
              (status[c] \in {"idle", "rejected"} /\ NoSession(c))
    /\ \A c \in Conns : status[c] = "rejected" => NoSession(c)
    /\ \A t \in Running : Authenticated(t.c)
    /\ \A c \in emitted.to : Authenticated(c)
    /\ \A c \in Conns : status[c] \in {"registering", "active", "orphan", "closed"} => Authenticated(c)

\* a socket was rejected for a token that is no address, and another socket
\* has a handler in flight
C6_Witness ==
    \E c, d \in Conns :
        /\ status[c] = "rejected" /\ token[c] = BadToken
        /\ status[d] = "active" /\ \E t \in Running : t.c = d

\* C4: every step of a leaveGroup handler leaves the Group collection as it
\* is, and the step that issues its HDEL takes the socket out of the group's
\* presence hash.
LeaveStep ==
    \/ \E c \in Conns, g \in GIds : LeaveGroup(c, g) \/ LeaveGroupHdelFail(c, g)
    \/ \E t \in Running : LeaveHdelReply(t) \/ LeaveHlenReply(t) \/ LeaveDelReply(t)

C4_LeaveKeepsMembership ==
    [][/\ LeaveStep => groups' = groups
       /\ \A c \in Conns, g \in GIds : LeaveGroup(c, g) => c \notin DOMAIN Hash(presence', g)]_vars

\* a leaveGroup handler of a socket whose identity joined the group (it is a
\* member and not the owner) has issued its HDEL
C4_Witness ==
    \E t \in Running :
        /\ t.kind = "leave" /\ t.pc = "hdel"
        /\ groupExists(groups, t.g)
        /\ isMember(groups, t.g, user[t.c])
        /\ groups[t.g].owner # user[t.c]
        /\ ~InPresence(t.c, t.g)

\* C9: a 'message' event carries the id, text, sender address and group id
\* of a document that is in the Chat collection when it is emitted; a
\* rejected Chat.create leaves the collection as it is and emits 'error' to
\* the sender and nothing else.
Persisted(m) == \E i \in DOMAIN messages : formatMessage(messages[i]) = m

C9_PersistBeforeBroadcast ==
    /\ [](emitted.ev = "message" => (Len(emitted.body) = 1 /\ Persisted(emitted.body[1])))
    /\ [][\A t \in Running : SendCreateFail(t) =>
              /\ messages' = messages
              /\ emitted'.ev = "error"
              /\ emitted'.to \subseteq {t.c}
              /\ \A u \in BagToSet(tasks') : ~(u.kind = "send" /\ u.n = t.n)]_vars

\* a 'message' event has just been delivered to a subscriber
C9_Witness == emitted.ev = "message" /\ emitted.to # {}

\* C10: no step removes an identity from a group's members array, and no step
\* removes a Group document.
C10_MembershipMonotonic ==
    [][/\ Len(groups') >= Len(groups)
       /\ \A g \in DOMAIN groups :
             /\ groups'[g].owner = groups[g].owner
             /\ \A u \in Users : Count(u, groups'[g].members) >= Count(u, groups[g].members)]_vars

\* a group has a member that joined it, and a socket of that member has since
\* disconnected
C10_Witness ==
    \E g \in DOMAIN groups, c \in purged :
        /\ isMember(groups, g, user[c])
        /\ groups[g].owner # user[c]

\* a 'message' event goes to exactly the connected sockets whose last
\* joinGroup/leaveGroup for its group to run to its end is a joinGroup
DeliveredToSubscribers ==
    emitted.ev = "message" =>
        emitted.to = {c \in Live : completed[c][emitted.body[1].groupId] = "join"}

\* the handler that constructed document id has returned
SendOver(id) == \A t \in Running : ~(t.kind = "send" /\ t.n = id)

\* C2: every sendMessage whose document was persisted broadcasts it, and the
\* 'message' event goes to exactly the connected sockets that joined the
\* group and have not since left it.
C2_BroadcastReachesSubscribers ==
    /\ DeliveredToSubscribers
    /\ \A i \in DOMAIN messages : SendOver(messages[i].id) => outcome[messages[i].id] = "message"

\* C8: when nothing of a connected socket is suspended and none of its
\* joinGroup/leaveGroup calls for a group failed, the socket is in the group's
\* presence hash and in its room if the last of them to arrive was a
\* joinGroup, and in neither if it was a leaveGroup.
C8_ArrivalOrder ==
    \A c \in Conns, g \in GIds :
        (status[c] = "active" /\ Quiet(c)) =>
            /\ lastArrived[c][g] = "join" => (InPresence(c, g) /\ g \in rooms[c])
            /\ lastArrived[c][g] = "leave" => (~InPresence(c, g) /\ g \notin rooms[c])

\* C3: an identity whose joinGroup calls for an existing group ran one after
\* the other, at least one of them to its end, is in the group's members
\* array exactly once.
C3_IdempotentJoin ==
    \A u \in Users, g \in DOMAIN groups :
        (joinCount[u][g] >= 1 /\ <<u, g>> \notin raced) => Count(u, groups[g].members) = 1

\* an identity that is not the owner ran joinGroup twice, one call after the
\* other, and is in the members array once
C3_Witness ==
    \E u \in Users, g \in DOMAIN groups :
        /\ joinCount[u][g] = 2 /\ <<u, g>> \notin raced
        /\ groups[g].owner # u
        /\ Count(u, groups[g].members) = 1

\* the documents of the walked group
InGroup == {i \in DOMAIN messages : messages[i].groupId = walk.g /\ ~messages[i].isDeleted}

NoDuplicate(q) == \A i, j \in DOMAIN q : i # j => q[i] # q[j]

NewestFirst(page) == \A i, j \in DOMAIN page : i < j => page[i].createdAt >= page[j].createdAt

WalkExact ==
    walk.started =>
        /\ NoDuplicate(walk.seen)
        /\ NewestFirst(walk.last)
        /\ Len(walk.last) =
              Min(PageLimit, Cardinality(InGroup) - (Len(walk.seen) - Len(walk.last)))
        /\ walk.done => Range(walk.seen) = {messages[i].id : i \in InGroup}

\* C5: a walk over a group's N messages returns each page newest first with
\* min(page limit, remaining) messages and no message twice, and when it ends
\* it has returned every one of the N messages.
C5_PaginationExact == WalkExact

\* the same when no two messages of the group were constructed in the same
\* millisecond
C5_DistinctCreatedAt ==
    (\A i, j \in InGroup : i # j => messages[i].createdAt # messages[j].createdAt) => WalkExact

\* C11: a 'message' event for a well-formed group id that matches no Group
\* document is delivered to no socket.
C11_NonexistentGroupBroadcast ==
    (emitted.ev = "message" /\ ~groupExists(groups, emitted.body[1].groupId)) =>
        emitted.to = {}

\* C12: a step that adds a Group document is a createGroup of a connected
\* socket and adds one non-private document whose owner is the identity of
\* that socket and whose members array is that identity alone; in every
\* state the owner of every Group document is in its members array.
C12_OwnerIsMember ==
    /\ [](\A g \in DOMAIN groups : isMember(groups, g, groups[g].owner))
    /\ [][Len(groups') > Len(groups) =>
             /\ Len(groups') = Len(groups) + 1
             /\ \E c \in Conns :
                   /\ status[c] = "active"
                   /\ emitted'.to = {c}
                   /\ groups'[Len(groups')].owner = user[c]
                   /\ groups'[Len(groups')].members = <<user[c]>>
                   /\ ~groups'[Len(groups')].isPrivate]_vars

\* a group has been joined by an identity other than its owner, and the
\* owner is still a member
C12_Witness ==
    \E g \in DOMAIN groups :
        /\ Len(groups[g].members) >= 2
        /\ \E i \in DOMAIN groups[g].members : groups[g].members[i] # groups[g].owner
        /\ isMember(groups, g, groups[g].owner)

\* C13: the reply of getGroups lists every non-private Group document once
\* and no private one, every group the viewer is a member of before every
\* group it is not a member of, and inside each of the two parts the
\* documents by createdAt, newest first; when Group.find rejects the reply is
\* the empty list.
Viewer == user[CHOOSE c \in Conns : c \in emitted.to]

ListedOnce(r) ==
    /\ NoDuplicate(r)
    /\ Range(r) = {g \in DOMAIN groups : ~groups[g].isPrivate}

OwnFirst(r, u) ==
    \A i, j \in DOMAIN r :
        (i < j /\ u \in Range(groups[r[j]].members)) => u \in Range(groups[r[i]].members)

NewestFirstWithin(r, u) ==
    \A i, j \in DOMAIN r :
        (i < j /\ (u \in Range(groups[r[i]].members)) = (u \in Range(groups[r[j]].members))) =>
            groups[r[i]].createdAt >= groups[r[j]].createdAt

C13_GetGroupsOrdering ==
    emitted.ev = "groups" =>
        IF emitted.text = "failed"
        THEN emitted.glist = <<>>
        ELSE /\ ListedOnce(emitted.glist)
             /\ OwnFirst(emitted.glist, Viewer)
             /\ NewestFirstWithin(emitted.glist, Viewer)

\* a reply lists a group the viewer does not belong to that is newer than a
\* listed group the viewer belongs to, and the collection has a private group
C13_Witness ==
    /\ emitted.ev = "groups" /\ emitted.text = ""
    /\ \E g \in DOMAIN groups : groups[g].isPrivate
    /\ \E i, j \in DOMAIN emitted.glist :
          /\ i < j
          /\ Viewer \in Range(groups[emitted.glist[i]].members)
          /\ Viewer \notin Range(groups[emitted.glist[j]].members)
          /\ groups[emitted.glist[i]].createdAt < groups[emitted.glist[j]].createdAt

\* a step handles a joinGroup, leaveGroup, sendMessage, loadMessages,
\* getGroups or createGroup event of socket c: it suspends a handler of c or
\* replies to c
Handles(c) ==
    \/ \E t \in BagToSet(tasks') :
          /\ t.c = c /\ t.kind # "cleanup"
          /\ CopiesIn(t, tasks') > CopiesIn(t, tasks)
    \/ c \in emitted'.to /\ emitted'.ev \in {"error", "groups", "group", "messages"}

\* a step emits connectionEstablished to socket c
Acks(c) == emitted'.ev = "connectionEstablished" /\ c \in emitted'.to

\* connectionEstablished goes to one socket that was not sent it before,
\* carries that socket's id, and is emitted with the socket's entry in
\* user_connections; no event of a socket is handled before it
AckDiscipline ==
    [][\A c \in Conns :
          /\ Acks(c) =>
                /\ emitted'.to = {c}
                /\ emitted'.body = <<[connectionId |-> c]>>
                /\ c \notin acked
                /\ c \in DOMAIN userConnections
                /\ userConnections[c] = Address(user[c])
          /\ Handles(c) => c \in acked]_vars

C15_NoDuplicateMembers ==
    \A g \in DOMAIN groups : NoDuplicate(groups[g].members)

\* the step leaves every presence entry of the sockets other than a in place
KeepsOthers(a) ==
    \A g \in GIds, b \in Conns \ {a} : b \in DOMAIN Hash(presence, g) => b \in DOMAIN Hash(presence', g)

\* C16: no step of a leaveGroup handler or of the disconnect cleanup of a
\* socket removes the presence entry of another socket.
C16_RemovesOwnEntryOnly ==
    [][/\ \A c \in Conns, g \in GIds : LeaveGroup(c, g) => KeepsOthers(c)
       /\ \A t \in Running :
             (\/ LeaveHdelReply(t) \/ LeaveHlenReply(t) \/ LeaveDelReply(t)
              \/ CleanupKeysReply(t) \/ CleanupHdelReply(t) \/ CleanupHlenReply(t)
              \/ CleanupDelReply(t) \/ CleanupDone(t)) => KeepsOthers(t.c)]_vars

\* a removeUserFromGroup or a cleanup is between its first command and its
\* return
Removing == \E t \in Running : t.kind \in {"leave", "cleanup"}

\* C17: whenever no removeUserFromGroup and no cleanup is in progress, every
\* group presence key that exists has at least one field; and the step of a
\* removeUserFromGroup or cleanup whose HLEN said 0 leaves the key deleted.
C17_NoGhostKeys ==
    /\ [](~Removing => \A g \in GroupKeys(presence) : HLen(presence[g]) >= 1)
    /\ [][\A t \in Running :
              ((LeaveHlenReply(t) \/ CleanupHlenReply(t)) /\ t.n = 0) =>
                  t.g \notin GroupKeys(presence')]_vars

\* a leaveGroup handler of a socket that had joined the group found the hash
\* empty after its HDEL and has deleted the key
C17_Witness ==
    \E t \in Running :
        /\ t.kind = "leave" /\ t.pc = "del" /\ t.n = 0
        /\ t.g \in rooms[t.c]
        /\ t.g \notin GroupKeys(presence)

\* position of the Chat document with this id in the collection (insertion
\* order), 0 if it is not there
Position(id) ==
    IF \E i \in DOMAIN messages : messages[i].id = id
    THEN CHOOSE i \in DOMAIN messages : messages[i].id = id
    ELSE 0

\* C18: when a handler emits its 'message' event, no document of another
\* sender for the same group whose Chat.create resolved after this handler's
\* has been broadcast already.
C18_BroadcastFollowsPersist ==
    [][\A t \in Running :
          SendEmit(t) =>
              \A j \in DOMAIN messages :
                  (/\ messages[j].groupId = t.g
                   /\ messages[j].sender # user[t.c]
                   /\ Position(t.n) < j) => outcome[messages[j].id] # "message"]_vars

\* the step emits one 'error' event, to socket c alone
ErrorOnlyTo(c) ==
    emitted'.ev = "error" /\ emitted'.to = {c} /\ emitted'.text = "Failed to join group"

\* copies of handler t suspended before and after the step
Returns(t) == CopiesIn(t, tasks') = CopiesIn(t, tasks) - 1

\* C19: the first step of a joinGroup handler puts the socket's entry into
\* the group's presence hash and no later step of the handler changes the
\* hash; the step in which its findById or save rejects changes neither the
\* Group collection nor any room, emits 'error' to that socket alone and ends
\* the handler.  When the HSET itself rejects, the step changes neither the
\* presence hash nor the Group collection nor any room, emits the same
\* 'error' and suspends no handler.
C19_FailedJoinIsPartial ==
    [][/\ \A c \in Conns, g \in GIds :
             /\ JoinGroup(c, g) =>
                   (InPresence(c, g))' /\ Hash(presence', g)[c] = Address(user[c])
             /\ JoinGroupHsetFail(c, g) =>
                   /\ presence' = presence /\ groups' = groups /\ rooms' = rooms
                   /\ tasks' = tasks
                   /\ ErrorOnlyTo(c)
       /\ \A t \in Running :
             /\ (JoinFind(t) \/ JoinSave(t) \/ JoinSubscribe(t)) =>
                   (presence' = presence /\ emitted'.ev = "none")
             /\ (JoinFindFail(t) \/ JoinSaveFail(t)) =>
                   /\ presence' = presence /\ groups' = groups /\ rooms' = rooms
                   /\ ErrorOnlyTo(t.c)
                   /\ Returns(t)]_vars

\* a joinGroup of a socket for an existing group has just ended in its catch
\* block with nothing else of the socket in flight: the socket is in the
\* presence hash, its identity is no member and it is not in the room
C19_Witness ==
    \E c \in Conns, g \in DOMAIN groups :
        /\ emitted.ev = "error" /\ emitted.to = {c} /\ emitted.text = "Failed to join group"
        /\ status[c] = "active" /\ Quiet(c)
        /\ InPresence(c, g)
        /\ ~isMember(groups, g, user[c])
        /\ g \notin rooms[c]

\* C20: no step of a cleanup called for a socket that is in no group
\* presence hash and not in user_connections changes the Redis store, and a
\* cleanup called for a socket again, after an earlier cleanup for it has
\* returned, finds the socket absent: the second run changes nothing.
C20_PurgeIdempotent ==
    [][/\ \A c \in Conns : (Purge(c) /\ c \in purged) => Absent(c)
       /\ \A t \in Running :
             (t.kind = "cleanup" /\ t.at = 1) =>
                 (presence' = presence /\ userConnections' = userConnections)]_vars

\* a second cleanup for a socket has sent its last HDEL while entries of
\* other sockets are in the store
C20_Witness ==
    \E t \in Running :
        /\ t.kind = "cleanup" /\ t.text = "again" /\ t.at = 1 /\ t.pc = "last"
        /\ GroupKeys(presence) # {}
        /\ userConnections # EmptyHash

\* C21: for a connected socket with nothing of it suspended and a group for
\* which none of its joinGroup/leaveGroup calls ended in its catch block, the
\* socket is a field of the group's presence hash exactly if it is in the
\* group's room, and the field's value is the address of the socket's
\* identity.
C21_PresenceMatchesRooms ==
    \A c \in Conns, g \in GIds :
        (status[c] = "active" /\ Quiet(c) /\ lastArrived[c][g] # "failed") =>
            /\ InPresence(c, g) <=> g \in rooms[c]
            /\ InPresence(c, g) => Hash(presence, g)[c] = Address(user[c])

\* every field of a group presence hash is a socket that passed
\* authentication, and its value is the address of that socket's identity
C21_EntryIsOwnAddress ==
    \A g \in GroupKeys(presence) : \A c \in DOMAIN presence[g] :
        Authenticated(c) /\ presence[g][c] = Address(user[c])

====
